---- MODULE Spec2Model ----
(***************************************************************************)
(* State-machine model of the nghttp command line client (src/nghttp.cc): *)
(* run() groups the input URIs into per-origin sessions, communicate()    *)
(* runs one session, and the bufferevent callbacks (eventcb, readcb,      *)
(* writecb) drive the HTTP/2 framing engine and the request registry of   *)
(* HttpClient.                                                             *)
(***************************************************************************)
EXTENDS Integers, Sequences, FiniteSets, TLC

(* ------------------------------ bounds -------------------------------- *)
\* longest command line (number of URI arguments)
MaxUris == 3
\* most requests admitted by communicate() where the peer's behaviour is
\* explored in full
MaxReqs == 2
\* most frames left queued in the framing engine after readcb
MaxPending == 4
\* largest value given to -m
MaxMultiply == 2
\* most links the HTML link extractor reports in one session
MaxLinks == 2
\* most streams the client opens in a session whose responses have links
MaxStreams == 4
\* largest size of the file given with -d
MaxFileLen == 3
\* most bytes the framing engine asks of the data source in one call
MaxRead == 2
\* most -H options on the command line
MaxHeaders == 2
\* bytes one serialized frame adds to the output buffer
FrameLen == 524288

(* ------------------------- program constants -------------------------- *)
\* Config::output_upper_thres
output_upper_thres == 1048576

(* ------------------------------- URIs --------------------------------- *)
\* A URI string is a sequence of tokens; a token stands for the run of
\* characters http_parser_parse_url reports as one field, "hash" for '#'.
Tok(k, v) == [k |-> k, v |-> v]

MkUri(schema, host, port, path, frag) ==
  (IF schema = "" THEN <<>> ELSE <<Tok("schema", schema)>>)
  \o (IF host = "" THEN <<>> ELSE <<Tok("host", host)>>)
  \o (IF port = "" THEN <<>> ELSE <<Tok("port", port)>>)
  \o (IF path = "" THEN <<>> ELSE <<Tok("path", path)>>)
  \o (IF frag = "" THEN <<>> ELSE <<Tok("hash", "#"), Tok("frag", frag)>>)

\* decimal value of a port field
PortValue(s) ==
  CASE s = "80" -> 80
    [] s = "443" -> 443
    [] s = "8443" -> 8443
    [] OTHER -> 0

UrlFields == {"schema", "host", "port", "path", "frag"}

\* http_parser_parse_url: rv = 0 on success; u.port and u.field_set are
\* zeroed before parsing, field_data[f] is the offset of field f; '#'
\* starts the fragment field.
ParseUrl(uri) ==
  LET bad == \E j \in 1..Len(uri) : uri[j].k \notin UrlFields \cup {"hash"}
      fs  == {f \in UrlFields : \E j \in 1..Len(uri) : uri[j].k = f}
      off == [f \in fs |-> CHOOSE j \in 1..Len(uri) : uri[j].k = f]
  IN IF bad \/ uri = <<>>
     THEN [rv |-> 1, field_set |-> {}, port |-> 0, field_data |-> <<>>]
     ELSE [rv |-> 0, field_set |-> fs,
           port |-> IF "port" \in fs THEN PortValue(uri[off["port"]].v) ELSE 0,
           field_data |-> off]

has_uri_field(u, field) == field \in u.field_set

\* fieldeq(uri1, u1, uri2, u2, field)
fieldeq(uri1, u1, uri2, u2, field) ==
  IF ~has_uri_field(u1, field)
  THEN ~has_uri_field(u2, field)
  ELSE IF ~has_uri_field(u2, field)
  THEN FALSE
  ELSE uri1[u1.field_data[field]].v = uri2[u2.field_data[field]].v

\* fieldeq(uri, u, field, t): t = "" is the empty C string
fieldeq_str(uri, u, field, t) ==
  IF ~has_uri_field(u, field)
  THEN t = ""
  ELSE IF t = ""
  THEN FALSE
  ELSE uri[u.field_data[field]].v = t

get_default_port(uri, u) ==
  IF fieldeq_str(uri, u, "schema", "https") THEN 443
  ELSE IF fieldeq_str(uri, u, "schema", "http") THEN 80
  ELSE 443

get_uri_field(uri, u, field) ==
  IF has_uri_field(u, field) THEN uri[u.field_data[field]].v ELSE ""

\* porteq with the second port taken from the first URI
porteq_FirstTwice(uri1, u1, uri2, u2) ==
  LET port1 == IF has_uri_field(u1, "port") THEN u1.port
               ELSE get_default_port(uri1, u1)
      port2 == IF has_uri_field(u1, "port") THEN u1.port
               ELSE get_default_port(uri1, u1)
  IN port1 = port2

porteq(uri1, u1, uri2, u2) ==
  LET port1 == IF has_uri_field(u1, "port") THEN u1.port
               ELSE get_default_port(uri1, u1)
      port2 == IF has_uri_field(u2, "port") THEN u2.port
               ELSE get_default_port(uri2, u2)
  IN port1 = port2

\* strip_fragment: the prefix before the first '#'
RECURSIVE strip_fragment(_)
strip_fragment(raw_uri) ==
  IF raw_uri = <<>> \/ Head(raw_uri).k = "hash" THEN <<>>
  ELSE <<Head(raw_uri)>> \o strip_fragment(Tail(raw_uri))


(* ------------------------------ state --------------------------------- *)
VARIABLES
  cfg,        \* Config: multiply, get_assets, no_tls, timeout
  uris,       \* argv of run(): the URI arguments
  i,          \* run(): loop index (1-based)
  prev_host,  \* run(): prev_host
  prev_port,  \* run(): prev_port
  requests,   \* run(): requests vector
  failures,   \* run(): failures
  pc,         \* position of the main thread
  callsite,   \* which communicate() call of run() is active
  result,     \* communicate(): result
  client,     \* HttpClient of the running communicate()
  ng,         \* nghttp2_session owned by client
  outlen,     \* evbuffer_get_length(bufferevent_get_output(bev))
  gh,         \* history of the running session (observations only)
  sessions,   \* history of the finished communicate() calls
  env         \* what the peer and the transport may do in this run

vars == <<cfg, uris, i, prev_host, prev_port, requests, failures, pc,
          callsite, result, client, ng, outlen, gh, sessions, env>>

(* ---------------------- framing engine (nghttp2) ---------------------- *)
NGHTTP2_ERR_WOULDBLOCK == 0 - 504
NGHTTP2_ERR_CALLBACK_FAILURE == 0 - 902
NGHTTP2_CLIENT_CONNECTION_HEADER_LEN == 24
NGHTTP2_ERR_TEMPORAL_CALLBACK_FAILURE == 0 - 521

\* no nghttp2_session (session == nullptr)
NgNull ==
  [ob |-> <<>>, next_sid |-> 1, st |-> <<>>, udata |-> <<>>,
   goaway_flags |-> {}]

Item(type, arg) == [type |-> type, arg |-> arg]

ActiveStreams(n) == {s \in DOMAIN n.st : n.st[s] # "closed"}

nghttp2_session_want_read(n) ==
  n.goaway_flags = {} \/ ActiveStreams(n) # {}

nghttp2_session_want_write(n) ==
  n.ob # <<>> /\ (n.goaway_flags = {} \/ ActiveStreams(n) # {})

nghttp2_submit_goaway(B) ==
  [B EXCEPT !.ng.ob = Append(@, Item("GOAWAY", 0)),
            !.g.goaway = @ + 1]

nghttp2_submit_rst_stream(B, stream_id) ==
  [B EXCEPT !.ng.ob = Append(@, Item("RST_STREAM", stream_id)),
            !.g.rst = @ \cup {stream_id}]

\* iv: the niv entries handed over; settings keeps every submission
nghttp2_submit_settings(B, iv) ==
  [B EXCEPT !.ng.ob = Append(@, Item("SETTINGS", 0)),
            !.g.settings = Append(@, iv)]

nghttp2_submit_request(B, req) ==
  [B EXCEPT !.ng.ob = Append(@, Item("HEADERS", req)),
            !.g.submitted = Append(@, req)]

(* ----------------------------- HttpClient ----------------------------- *)
NoClient ==
  [state |-> "IDLE", session |-> FALSE, bev |-> FALSE, ssl |-> FALSE,
   dnsbase |-> FALSE, reqvec |-> <<>>, hostport |-> <<>>, streams |-> <<>>,
   path_cache |-> {}, complete |-> 0]

NoHistory ==
  [goaway |-> 0, rst |-> {}, submitted |-> <<>>, admits |-> <<>>,
   links |-> 0, quiescent |-> FALSE, connected |-> FALSE,
   npn |-> "none", failed |-> FALSE, sendlog |-> <<>>,
   wasblocked |-> FALSE, pump |-> "none", acq |-> <<>>, rel |-> <<>>,
   readsum |-> <<>>, reads |-> 0, counted |-> <<>>, decfail |-> {},
   tv |-> [read |-> 0 - 1, write |-> 0 - 1], blocks |-> <<>>,
   aborted |-> FALSE, linkseq |-> <<>>, dropped |-> "none",
   first |-> "none", statuslog |-> <<>>, inits |-> <<>>, sawgzip |-> {},
   raw |-> {}, inflated |-> {}, late |-> {}, settings |-> <<>>]

\* Request::Request; parent is the index of the request whose response
\* produced the link (0 for a request given on the command line)
Request(uri, u, data_prd, data_length, level, parent) ==
  [uri |-> uri, u |-> u, inflater |-> FALSE, html_parser |-> FALSE,
   data_prd |-> data_prd, data_length |-> data_length, data_offset |-> 0,
   level |-> level, status |-> "", parent |-> parent]

Last(s) == s[Len(s)]

\* add_request that records the URI whatever config.multiply is
add_request_AlwaysCache(B, uri, data_prd, data_length, level, parent) ==
  IF uri \in B.c.path_cache
  THEN [B EXCEPT !.g.admits = Append(@, [uri |-> uri, ret |-> FALSE])]
  ELSE [B EXCEPT
          !.c.path_cache = @ \cup {uri},
          !.c.reqvec = Append(@, Request(uri, ParseUrl(uri), data_prd,
                                         data_length, level, parent)),
          !.g.admits = Append(@, [uri |-> uri, ret |-> TRUE])]

\* HttpClient::add_request; the return value is Last(admits).ret
add_request(B, uri, data_prd, data_length, level, parent) ==
  IF uri \in B.c.path_cache
  THEN [B EXCEPT !.g.admits = Append(@, [uri |-> uri, ret |-> FALSE])]
  ELSE [B EXCEPT
          !.c.path_cache = IF cfg.multiply = 1 THEN @ \cup {uri} ELSE @,
          !.c.reqvec = Append(@, Request(uri, ParseUrl(uri), data_prd,
                                         data_length, level, parent)),
          !.g.admits = Append(@, [uri |-> uri, ret |-> TRUE])]

all_requests_processed(c) == c.complete = Len(c.reqvec)

(* ---------------------------- header block ---------------------------- *)
\* A C string is the sequence of its pieces; nullptr is no string.
cstr(s) == <<s>>
nullptr == <<>>

Nv(name, value) == [name |-> name, value |-> value]

\* util::strieq on the header names used here: equality of the lower-case
\* forms
ToLower(s) ==
  CASE s = "Accept" -> "accept"
    [] s = "GZIP" -> "gzip"
    [] s = "Content-Encoding" -> "content-encoding"
    [] s = "Host" -> "host"
    [] s = "User-Agent" -> "user-agent"
    [] OTHER -> s

strieq(a, b) == ToLower(a) = ToLower(b)

\* enum eStaticHeaderPosition
POS_METHOD == 0
POS_PATH == 1
POS_SCHEME == 2
POS_HOST == 3
POS_ACCEPT == 4
POS_ACCEPT_ENCODING == 5
POS_USERAGENT == 6

\* Request::make_reqpath (URIs here have no query)
make_reqpath(req) ==
  IF has_uri_field(req.u, "path")
  THEN cstr(get_uri_field(req.uri, req.u, "path")) ELSE cstr("/")

\* static_nv of submit_request
static_nv(req, hostport) ==
  << cstr(":method"), IF req.data_prd THEN cstr("POST") ELSE cstr("GET"),
     cstr(":path"), make_reqpath(req),
     cstr(":scheme"), cstr(get_uri_field(req.uri, req.u, "schema")),
     cstr(":host"), hostport,
     cstr("accept"), cstr("*/*"),
     cstr("accept-encoding"), cstr("gzip, deflate"),
     cstr("user-agent"), cstr("nghttp2/VERSION") >>

\* "sizeof(static_nv) / sizeof(*static_nv)"
hardcoded_entry_count == 14

total_entry_count(headers, req) ==
  hardcoded_entry_count + Len(headers) * 2 + (IF req.data_prd THEN 1 ELSE 0)

\* "make_unique<const char*[]>(total_entry_count + 1)" and the memcpy of
\* static_nv: cell[k] is nv[k], every further cell is nullptr; oob is
\* what was written past the end of the array
new_nv(headers, req, hostport) ==
  [size |-> total_entry_count(headers, req) + 1,
   cell |-> [k \in 0..total_entry_count(headers, req) |->
               IF k < hardcoded_entry_count
               THEN static_nv(req, hostport)[k + 1] ELSE nullptr],
   oob  |-> <<>>]

\* "nv[idx] = val"
nv_put(nv, idx, val) ==
  IF idx < nv.size
  THEN [nv EXCEPT !.cell[idx] = val]
  ELSE [nv EXCEPT !.oob = (idx :> val) @@ @]

\* "nv[idx]" as nghttp2_submit_request reads it
nv_get(nv, idx) ==
  IF idx < nv.size THEN nv.cell[idx]
  ELSE IF idx \in DOMAIN nv.oob THEN nv.oob[idx]
  ELSE nullptr

\* the loop over the user's headers that appends Accept as well
RECURSIVE nv_headers_AppendAccept(_, _, _)
nv_headers_AppendAccept(nv, hs, pos) ==
  IF hs = <<>> THEN nv_put(nv, pos, nullptr)
  ELSE IF strieq(Head(hs).name, "user-agent")
  THEN nv_headers_AppendAccept(
         nv_put(nv, POS_USERAGENT * 2 + 1, Head(hs).value), Tail(hs), pos)
  ELSE IF strieq(Head(hs).name, "host")
  THEN nv_headers_AppendAccept(
         nv_put(nv, POS_HOST * 2 + 1, Head(hs).value), Tail(hs), pos)
  ELSE nv_headers_AppendAccept(
         nv_put(nv_put(nv, pos, cstr(Head(hs).name)), pos + 1, Head(hs).value),
         Tail(hs), pos + 2)

\* submit_request: "while( i != end )" and "nv[pos] = nullptr"
RECURSIVE nv_headers(_, _, _)
nv_headers(nv, hs, pos) ==
  IF hs = <<>> THEN nv_put(nv, pos, nullptr)
  ELSE IF strieq(Head(hs).name, "accept")
  THEN nv_headers(nv_put(nv, POS_ACCEPT * 2 + 1, Head(hs).value),
                  Tail(hs), pos)
  ELSE IF strieq(Head(hs).name, "user-agent")
  THEN nv_headers(nv_put(nv, POS_USERAGENT * 2 + 1, Head(hs).value),
                  Tail(hs), pos)
  ELSE IF strieq(Head(hs).name, "host")
  THEN nv_headers(nv_put(nv, POS_HOST * 2 + 1, Head(hs).value),
                  Tail(hs), pos)
  ELSE nv_headers(
         nv_put(nv_put(nv, pos, cstr(Head(hs).name)), pos + 1, Head(hs).value),
         Tail(hs), pos + 2)

\* decimal form of data_length ("ss << req->data_length")
Decimal(n) == cstr(ToString(n))

\* build_nv that puts content-length in every header block
build_nv_AlwaysLength(headers, req, hostport) ==
  nv_headers(
    nv_put(nv_put(new_nv(headers, req, hostport),
                  hardcoded_entry_count, cstr("content-length")),
           hardcoded_entry_count + 1, Decimal(req.data_length)),
    headers, hardcoded_entry_count + 2)

\* submit_request up to "nv[pos] = nullptr"
build_nv(headers, req, hostport) ==
  IF req.data_prd
  THEN nv_headers(
         nv_put(nv_put(new_nv(headers, req, hostport),
                       hardcoded_entry_count, cstr("content-length")),
                hardcoded_entry_count + 1, Decimal(req.data_length)),
         headers, hardcoded_entry_count + 2)
  ELSE nv_headers(new_nv(headers, req, hostport), headers,
                  hardcoded_entry_count)

\* the name/value pairs nghttp2_submit_request reads from nv, up to the
\* first nullptr name; a terminator written past the end of the array is
\* read back from where it was written
RECURSIVE NvBlock(_, _)
NvBlock(nv, k) ==
  IF nv_get(nv, k) = nullptr THEN <<>>
  ELSE <<Nv(nv_get(nv, k), nv_get(nv, k + 1))>> \o NvBlock(nv, k + 2)

\* the end of submit_request, where nv is released: after a write past
\* the end of nv the allocator either has room behind the array or
\* finds the heap damaged and ends the process (env.heap)
release_nv(B, nv) ==
  IF nv.oob # <<>> /\ env.heap = "abort"
  THEN [B EXCEPT !.g.aborted = TRUE] ELSE B

\* submit_request(client, config.headers, req) on an array nv already
\* built
submit_nv(B, req, nv) ==
  release_nv(
    [nghttp2_submit_request(B, req)
       EXCEPT !.g.blocks =
                Append(@, [req |-> req, nv |-> nv, block |-> NvBlock(nv, 0),
                           data_prd |-> B.c.reqvec[req].data_prd,
                           data_length |-> B.c.reqvec[req].data_length])],
    nv)

\* submit_request; nothing runs once the process has ended
submit_request(B, req) ==
  IF B.g.aborted THEN B
  ELSE submit_nv(B, req,
                 build_nv(cfg.headers, B.c.reqvec[req], B.c.hostport))

\* update_html_parser: "if(client->add_request(...)) submit_request(...)",
\* B1 being the client after add_request
submit_if_added(B1) ==
  IF Last(B1.g.admits).ret
  THEN submit_request(B1, Len(B1.c.reqvec))
  ELSE B1

\* update_html_parser: the body of the loop for one link, uri being the
\* link without its fragment
admit_link(B, r, uri) ==
  LET req == B.c.reqvec[r]
      u   == ParseUrl(uri)
  IN IF u.rv = 0
        /\ fieldeq(uri, u, req.uri, req.u, "schema")
        /\ fieldeq(uri, u, req.uri, req.u, "host")
        /\ porteq(uri, u, req.uri, req.u)
     THEN submit_if_added(add_request(B, uri, FALSE, 0, req.level + 1, r))
     ELSE B

\* the loop over the links that leaves the links as they are
RECURSIVE admit_links_RawUri(_, _, _)
admit_links_RawUri(B, r, links) ==
  IF links = <<>> THEN B
  ELSE admit_links_RawUri(admit_link(B, r, Head(links)), r, Tail(links))

\* the loop over the links that starts with the last link
RECURSIVE admit_links_LastFirst(_, _, _)
admit_links_LastFirst(B, r, links) ==
  IF links = <<>> THEN B
  ELSE admit_links_LastFirst(
         admit_link(B, r, strip_fragment(links[Len(links)])),
         r, SubSeq(links, 1, Len(links) - 1))

\* the loop of update_html_parser over html_parser->get_links()
RECURSIVE admit_links(_, _, _)
admit_links(B, r, links) ==
  IF links = <<>> THEN B
  ELSE admit_links(admit_link(B, r, strip_fragment(Head(links))),
                   r, Tail(links))

\* update_html_parser(client, req, data, len, fin): links is what the
\* extractor reports for this data
update_html_parser(B, r, links) ==
  IF ~B.c.reqvec[r].html_parser THEN B
  ELSE admit_links(
         [B EXCEPT !.g.linkseq = IF env.linklog THEN @ \o links ELSE @],
         r, links)

\* how often on_stream_close_callback has counted request r
Counted(g, r) == IF r \in DOMAIN g.counted THEN g.counted[r] ELSE 0

\* on_stream_close_callback: "if(client->all_requests_processed())
\* nghttp2_submit_goaway(...)", B2 being the client after ++complete
goaway_if_processed(B2) ==
  IF all_requests_processed(B2.c)
  THEN nghttp2_submit_goaway(B2)
  ELSE B2

\* on_stream_close_callback that submits GOAWAY without asking
\* all_requests_processed
on_stream_close_callback_NoCheck(B, stream_id, links) ==
  IF stream_id \in DOMAIN B.c.streams
  THEN nghttp2_submit_goaway(
         [update_html_parser(B, B.c.streams[stream_id], links)
            EXCEPT !.c.complete = @ + 1])
  ELSE B

\* on_stream_close_callback that counts streams it has no request for
on_stream_close_callback_AnyStream(B, stream_id, links) ==
  goaway_if_processed(
    [(IF stream_id \in DOMAIN B.c.streams
      THEN update_html_parser(B, B.c.streams[stream_id], links)
      ELSE B)
       EXCEPT !.c.complete = @ + 1])

\* on_stream_close_callback
on_stream_close_callback(B, stream_id, links) ==
  IF stream_id \in DOMAIN B.c.streams
  THEN goaway_if_processed(
         [update_html_parser(B, B.c.streams[stream_id], links)
            EXCEPT !.c.complete = @ + 1,
                   !.g.counted = (B.c.streams[stream_id] :>
                                    (Counted(B.g, B.c.streams[stream_id]) + 1))
                                 @@ @])
  ELSE B

\* check_stream_id that files every request under stream 1
check_stream_id_FixedKey(B, stream_id) ==
  [B EXCEPT !.c.streams = (1 :> B.ng.udata[stream_id]) @@ @]

\* check_stream_id, called from on_frame_send_callback2 for a HEADERS
\* frame that starts a stream
check_stream_id(B, stream_id) ==
  [B EXCEPT !.c.streams = (stream_id :> B.ng.udata[stream_id]) @@ @]


\* check_response_header for a reply HEADERS frame; nva is the header
\* block
RECURSIVE scan_gzip(_, _)
scan_gzip(nva, gzip) ==
  IF nva = <<>> THEN gzip
  ELSE scan_gzip(Tail(nva),
                 IF strieq("content-encoding", Head(nva).name)
                 THEN strieq("gzip", Head(nva).value)
                      \/ strieq("deflate", Head(nva).value)
                 ELSE gzip)

RECURSIVE scan_status(_, _)
scan_status(nva, status) ==
  IF nva = <<>> THEN status
  ELSE scan_status(Tail(nva),
                   IF ~strieq("content-encoding", Head(nva).name)
                      /\ strieq(":status", Head(nva).name)
                   THEN Head(nva).value
                   ELSE status)

\* the values "req->status.assign(...)" gives req->status while the loop
\* of check_response_header runs over nva, in their order
RECURSIVE StatusAssigned(_)
StatusAssigned(nva) ==
  IF nva = <<>> THEN <<>>
  ELSE (IF ~strieq("content-encoding", Head(nva).name)
           /\ strieq(":status", Head(nva).name)
        THEN <<Head(nva).value>> ELSE <<>>)
       \o StatusAssigned(Tail(nva))

\* the values req->status of request r was given so far
StatusLog(g, r) == IF r \in DOMAIN g.statuslog THEN g.statuslog[r] ELSE <<>>

\* how often init_inflater ran for request r
InflaterInits(g, r) == IF r \in DOMAIN g.inits THEN g.inits[r] ELSE 0

\* check_response_header that gives every Request an extractor
check_response_header_AnyLevel(B, stream_id, nva) ==
  LET r == B.ng.udata[stream_id] IN
  IF r = 0 THEN B
  ELSE LET req  == B.c.reqvec[r]
           gzip == scan_gzip(nva, FALSE)
       IN [B EXCEPT
             !.c.reqvec[r].status = scan_status(nva, req.status),
             !.c.reqvec[r].inflater = IF gzip THEN TRUE ELSE @,
             !.c.reqvec[r].html_parser =
                IF cfg.get_assets THEN TRUE ELSE @,
             !.g.statuslog =
                (r :> (StatusLog(B.g, r) \o StatusAssigned(nva))) @@ @,
             !.g.inits =
                IF gzip /\ ~req.inflater
                THEN (r :> (InflaterInits(B.g, r) + 1)) @@ @ ELSE @]

\* check_response_header
check_response_header(B, stream_id, nva) ==
  LET r == B.ng.udata[stream_id] IN
  IF r = 0 THEN B
  ELSE LET req  == B.c.reqvec[r]
           gzip == scan_gzip(nva, FALSE)
       IN [B EXCEPT
             !.c.reqvec[r].status = scan_status(nva, req.status),
             !.c.reqvec[r].inflater = IF gzip THEN TRUE ELSE @,
             !.c.reqvec[r].html_parser =
                IF cfg.get_assets /\ req.level = 0 THEN TRUE ELSE @,
             !.g.statuslog =
                (r :> (StatusLog(B.g, r) \o StatusAssigned(nva))) @@ @,
             !.g.inits =
                IF gzip /\ ~req.inflater
                THEN (r :> (InflaterInits(B.g, r) + 1)) @@ @ ELSE @]

\* "nghttp2_gzip_inflate(req->inflater, ...)" on data of stream_id: late
\* are the streams whose data was given to the decoder after RST_STREAM
\* had been submitted for them
fed(B, stream_id) ==
  IF env.bodylog /\ stream_id \in B.g.rst
  THEN [B EXCEPT !.g.late = @ \cup {stream_id}]
  ELSE B

\* "std::cout.write(...)" of body bytes of request r: inflated are the
\* requests whose bytes came out of the decoder, raw those whose bytes
\* were written as received
written(B, r, through) ==
  IF ~env.bodylog THEN B
  ELSE IF through THEN [B EXCEPT !.g.inflated = @ \cup {r}]
  ELSE [B EXCEPT !.g.raw = @ \cup {r}]

\* the inflate loop that resets the oldest stream of the client
RECURSIVE inflate_loop_OldestStream(_, _, _, _)
inflate_loop_OldestStream(B, stream_id, r, pieces) ==
  IF pieces = <<>> THEN B
  ELSE IF ~Head(pieces).ok
  THEN nghttp2_submit_rst_stream(fed(B, stream_id), 1)
  ELSE inflate_loop_OldestStream(
         update_html_parser(written(fed(B, stream_id), r, TRUE), r,
                            Head(pieces).links),
         stream_id, r, Tail(pieces))

RECURSIVE inflate_loop(_, _, _, _)
inflate_loop(B, stream_id, r, pieces) ==
  IF pieces = <<>> THEN B
  ELSE IF ~Head(pieces).ok
  THEN nghttp2_submit_rst_stream(fed(B, stream_id), stream_id)
  ELSE inflate_loop(
         update_html_parser(written(fed(B, stream_id), r, TRUE), r,
                            Head(pieces).links),
         stream_id, r, Tail(pieces))

RECURSIVE AllLinks(_)
AllLinks(pieces) ==
  IF pieces = <<>> THEN <<>>
  ELSE Head(pieces).links \o AllLinks(Tail(pieces))

\* on_data_chunk_recv_callback that does not look the stream up: data of
\* a stream without request is written as received
on_data_chunk_recv_callback_AnyStream(B, stream_id, pieces) ==
  IF stream_id \in DOMAIN B.c.streams
  THEN LET r == B.c.streams[stream_id] IN
       IF B.c.reqvec[r].inflater
       THEN inflate_loop(B, stream_id, r, pieces)
       ELSE update_html_parser(written(B, r, FALSE), r, AllLinks(pieces))
  ELSE written(B, 0, FALSE)

\* on_data_chunk_recv_callback; a chunk is a sequence of pieces, one per
\* call of nghttp2_gzip_inflate: ok is its result, links what the
\* extractor finds in the bytes of the piece
on_data_chunk_recv_callback(B, stream_id, pieces) ==
  IF stream_id \in DOMAIN B.c.streams
  THEN LET r == B.c.streams[stream_id] IN
       IF B.c.reqvec[r].inflater
       THEN inflate_loop(B, stream_id, r, pieces)
       ELSE update_html_parser(written(B, r, FALSE), r, AllLinks(pieces))
  ELSE B

\* one call of sendcb as the history keeps it: the length of the output
\* buffer before and after, the length asked for, whether evbuffer_add
\* failed, and the value returned
Sent(B, len, add_fails, B1, rv) ==
  [B |-> [B1 EXCEPT !.g.sendlog =
            Append(@, [before |-> B.out, len |-> len, add_fails |-> add_fails,
                       rv |-> rv, after |-> B1.out]),
                    !.g.wasblocked = @ \/ rv = NGHTTP2_ERR_WOULDBLOCK,
                    !.g.first = IF @ = "none" /\ rv > 0 THEN "frame" ELSE @],
   rv |-> rv]

\* sendcb that never looks at the length of the output buffer
sendcb_NoThreshold(B, len, add_fails) ==
  IF add_fails THEN Sent(B, len, add_fails, B, NGHTTP2_ERR_CALLBACK_FAILURE)
  ELSE Sent(B, len, add_fails, [B EXCEPT !.out = @ + len], len)

\* HttpClient::sendcb(data, len); add_fails: evbuffer_add returns -1
sendcb(B, len, add_fails) ==
  IF B.out > output_upper_thres
  THEN Sent(B, len, add_fails, B, NGHTTP2_ERR_WOULDBLOCK)
  ELSE IF add_fails
  THEN Sent(B, len, add_fails, B, NGHTTP2_ERR_CALLBACK_FAILURE)
  ELSE Sent(B, len, add_fails, [B EXCEPT !.out = @ + len], len)

\* pread(fd, buf, length, offset) on the file given with -d, whose size
\* stays cfg.st_size: the number of bytes read, -1 on an I/O error
pread(length, offset) ==
  IF offset = env.preaderr THEN 0 - 1
  ELSE IF offset >= cfg.st_size THEN 0
  ELSE IF cfg.st_size - offset < length THEN cfg.st_size - offset
  ELSE length

\* file_read_callback that advances by the length asked for
file_read_callback_AdvanceByLength(B, stream_id, length) ==
  LET r == B.ng.udata[stream_id]
      n == pread(length, B.c.reqvec[r].data_offset)
  IN IF n = 0 - 1
     THEN [B |-> B, rv |-> NGHTTP2_ERR_TEMPORAL_CALLBACK_FAILURE,
           eof |-> FALSE]
     ELSE IF n = 0
     THEN [B |-> B, rv |-> n, eof |-> TRUE]
     ELSE [B |-> [B EXCEPT !.c.reqvec[r].data_offset = @ + length],
           rv |-> n, eof |-> FALSE]

\* file_read_callback; r is the stream user data (the Request)
file_read_callback(B, stream_id, length) ==
  LET r == B.ng.udata[stream_id]
      n == pread(length, B.c.reqvec[r].data_offset)
  IN IF n = 0 - 1
     THEN [B |-> B, rv |-> NGHTTP2_ERR_TEMPORAL_CALLBACK_FAILURE,
           eof |-> FALSE]
     ELSE IF n = 0
     THEN [B |-> B, rv |-> n, eof |-> TRUE]
     ELSE [B |-> [B EXCEPT !.c.reqvec[r].data_offset = @ + n],
           rv |-> n, eof |-> FALSE]

\* the engine's record of what the read callback of a request returned
ReadSum(g, r) == IF r \in DOMAIN g.readsum THEN g.readsum[r] ELSE 0

\* the engine makes the next DATA frame of the stream at the head of its
\* queue: it asks the data source for the bytes, once per frame
pack_data(B) ==
  LET sid == Head(B.ng.ob).arg
      rd  == file_read_callback(B, sid, env.readlen)
      rq  == B.ng.udata[sid]
  IN IF sid \notin ActiveStreams(B.ng)
     THEN [B EXCEPT !.ng.ob = Tail(@)]
     ELSE IF rd.rv < 0
     THEN nghttp2_submit_rst_stream([rd.B EXCEPT !.ng.ob = Tail(@)], sid)
     ELSE [rd.B EXCEPT
             !.ng.ob = <<Item(IF rd.eof THEN "DATA_END" ELSE "DATA_PACKED",
                              sid)>> \o Tail(@),
             !.g.readsum = (rq :> (ReadSum(B.g, rq) + rd.rv)) @@ @,
             !.g.reads = @ + 1]

\* what the engine does once the head of its outbound queue is written:
\* stream bookkeeping and on_frame_send_callback2 / on_stream_close
after_frame_sent(B) ==
  LET item == Head(B.ng.ob)
      B0   == [B EXCEPT !.ng.ob = Tail(@)]
  IN CASE item.type = "HEADERS" ->
            LET sid == B0.ng.next_sid
                B1  == [B0 EXCEPT !.ng.next_sid = @ + 2,
                                  !.ng.st = (sid :> "open") @@ @,
                                  !.ng.udata = (sid :> item.arg) @@ @]
            IN check_stream_id(
                 IF B.c.reqvec[item.arg].data_prd
                 THEN [B1 EXCEPT !.ng.ob = Append(@, Item("DATA", sid))]
                 ELSE B1, sid)
       [] item.type = "DATA_PACKED" ->
            [B0 EXCEPT !.ng.ob = Append(@, Item("DATA", item.arg))]
       [] item.type = "RST_STREAM" ->
            IF item.arg \in ActiveStreams(B0.ng)
            THEN on_stream_close_callback(
                   [B0 EXCEPT !.ng.st[item.arg] = "closed"], item.arg, <<>>)
            ELSE B0
       [] item.type = "GOAWAY" ->
            [B0 EXCEPT !.ng.goaway_flags = @ \cup {"SEND"}]
       [] OTHER -> B0

\* nghttp2_session_send: write queued frames until the queue is empty,
\* sendcb would block or fails; failAt = k makes the k-th write fail
RECURSIVE nghttp2_session_send(_, _)
nghttp2_session_send(B, failAt) ==
  IF B.ng.ob = <<>> THEN [B |-> B, rv |-> 0]
  ELSE IF Head(B.ng.ob).type = "HEADERS" /\ B.ng.goaway_flags # {}
  THEN nghttp2_session_send([B EXCEPT !.ng.ob = Tail(@)], failAt)
  ELSE IF Head(B.ng.ob).type = "DATA"
  THEN nghttp2_session_send(pack_data(B), failAt)
  ELSE LET s == sendcb(B, FrameLen, failAt = 1) IN
       IF s.rv = NGHTTP2_ERR_WOULDBLOCK THEN [B |-> s.B, rv |-> 0]
       ELSE IF s.rv < 0 THEN s
       ELSE nghttp2_session_send(after_frame_sent(s.B),
                                 IF failAt > 0 THEN failAt - 1 ELSE 0)

\* nghttp2_session_recv for the frame ev taken from the input buffer
nghttp2_session_recv(B, ev) ==
  CASE ev.t = "HEADERS" ->
         [B |-> check_response_header(
                  [B EXCEPT !.ng.st[ev.sid] = "replied"], ev.sid, ev.nva),
          rv |-> 0]
    [] ev.t = "DATA" ->
         [B |-> on_data_chunk_recv_callback(B, ev.sid, ev.pieces), rv |-> 0]
    [] ev.t = "CLOSE" ->
         [B |-> on_stream_close_callback(
                  [B EXCEPT !.ng.st[ev.sid] = "closed"], ev.sid,
                  AllLinks(ev.pieces)),
          rv |-> 0]
    [] ev.t = "GOAWAY" ->
         [B |-> [B EXCEPT !.ng.goaway_flags = @ \cup {"RECV"}], rv |-> 0]
    [] ev.t = "PUSH_PROMISE" ->
         [B |-> [B EXCEPT !.ng.st = (ev.sid :> "replied") @@ @,
                          !.ng.udata = (ev.sid :> 0) @@ @],
          rv |-> 0]
    [] ev.t = "ERROR" -> [B |-> B, rv |-> NGHTTP2_ERR_CALLBACK_FAILURE]
    [] OTHER -> [B |-> B, rv |-> 0]

\* the check both pumps make when rv == 0
Quiescent(n) ==
  ~nghttp2_session_want_read(n) /\ ~nghttp2_session_want_write(n)

\* the tail of on_read and on_write: "if(rv == 0) { if(want_read == 0 &&
\* want_write == 0) rv = -1; }", s being the client and rv so far
check_want(s) ==
  IF s.rv = 0 /\ Quiescent(s.B.ng)
  THEN [B |-> [s.B EXCEPT !.g.quiescent = TRUE, !.g.pump = "quiescent"],
        rv |-> 0 - 1]
  ELSE [s EXCEPT !.B.g.pump = IF s.rv < 0 THEN "error" ELSE "ok"]

\* HttpClient::on_write
on_write(B, failAt) == check_want(nghttp2_session_send(B, failAt))

\* on_read: "if((rv = nghttp2_session_recv(session)) < 0) ... else if((rv =
\* nghttp2_session_send(session)) < 0) ...", r being the result of recv
send_unless_failed(r, failAt) ==
  IF r.rv < 0 THEN r ELSE nghttp2_session_send(r.B, failAt)

\* HttpClient::on_read
on_read(B, ev, failAt) ==
  check_want(send_unless_failed(nghttp2_session_recv(B, ev), failAt))

\* HttpClient::on_connect
RECURSIVE submit_all(_, _)
submit_all(B, k) ==
  IF k > Len(B.c.reqvec) THEN B
  ELSE submit_all(submit_request(B, k), k + 1)

\* "1 << config.window_bits", a shift of the int 1: main admits
\* window_bits < 31 only, so that the result is within int
shl1(bits) == 2 ^ bits

\* iv carrying the window bits themselves
settings_iv_Bits(window_bits) ==
  IF window_bits # 0 - 1
  THEN <<[settings_id |-> "NGHTTP2_SETTINGS_INITIAL_WINDOW_SIZE",
          value |-> window_bits]>>
  ELSE <<>>

\* on_connect: iv[0..niv-1] as filled in before nghttp2_submit_settings
settings_iv(window_bits) ==
  IF window_bits # 0 - 1
  THEN <<[settings_id |-> "NGHTTP2_SETTINGS_INITIAL_WINDOW_SIZE",
          value |-> shl1(window_bits)]>>
  ELSE <<>>

\* on_connect that writes the connection header after the pump
on_connect_HeaderLast(B, failAt) ==
  LET B1 == [B EXCEPT !.c.session = TRUE, !.ng = NgNull,
                      !.g.acq = Append(@, "session")]
      B2 == nghttp2_submit_settings(B1, settings_iv(cfg.window_bits))
      r  == on_write(submit_all(B2, 1), failAt)
  IN [r EXCEPT !.B.out = @ + NGHTTP2_CLIENT_CONNECTION_HEADER_LEN,
               !.B.g.first = IF @ = "none" THEN "preface" ELSE @]

\* first is what was put into the output buffer first: the connection
\* header ("preface") or a frame
on_connect(B, failAt) ==
  LET B1 == [B EXCEPT !.c.session = TRUE, !.ng = NgNull,
                      !.g.acq = Append(@, "session"),
                      !.out = @ + NGHTTP2_CLIENT_CONNECTION_HEADER_LEN,
                      !.g.first = IF @ = "none" THEN "preface" ELSE @]
      B2 == nghttp2_submit_settings(B1, settings_iv(cfg.window_bits))
  IN on_write(submit_all(B2, 1), failAt)

\* what disconnect releases, in the order of its statements
Released(c) ==
  (IF c.session THEN <<"session">> ELSE <<>>)
  \o (IF c.bev THEN <<"bev">> ELSE <<>>)
  \o (IF c.dnsbase THEN <<"dnsbase">> ELSE <<>>)
  \o (IF c.ssl THEN <<"ssl">> ELSE <<>>)

\* HttpClient::disconnect; dropped is what the output buffer of the
\* bufferevent held when bufferevent_free released it
disconnect(B) ==
  [B EXCEPT !.c.state = "IDLE", !.c.session = FALSE, !.ng = NgNull,
            !.c.bev = FALSE, !.out = 0, !.c.dnsbase = FALSE,
            !.c.ssl = FALSE, !.g.rel = @ \o Released(B.c),
            !.g.dropped = IF ~(env.outlog /\ B.c.bev) THEN @
                           ELSE IF B.out > 0 THEN "bytes" ELSE "empty"]


\* readcb and writecb: "if(rv != 0) client->disconnect()", r being the
\* result of on_read or on_write
disconnect_if_failed(r) ==
  IF r.rv # 0 THEN disconnect(r.B) ELSE r.B

\* readcb that ignores the result of on_read
readcb_NoDisconnect(B, ev, failAt) ==
  on_read(B, ev, failAt).B

\* readcb
readcb(B, ev, failAt) ==
  disconnect_if_failed(on_read(B, ev, failAt))

\* writecb that returns without running the send pump
writecb_NoPump(B, failAt) == B

\* writecb; B.out is the length of the output buffer when it is called
writecb(B, failAt) ==
  IF B.out > 0 THEN B
  ELSE disconnect_if_failed(on_write(B, failAt))

\* eventcb; events is one of BEV_EVENT_CONNECTED, BEV_EVENT_EOF,
\* BEV_EVENT_ERROR, BEV_EVENT_TIMEOUT
eventcb(B, events, failAt) ==
  IF events = "CONNECTED"
  THEN on_connect([B EXCEPT !.c.state = "CONNECTED"], failAt).B
  ELSE disconnect(B)

(* --------------------------- the environment -------------------------- *)
\* URIs given on the command line
UriA == MkUri("https", "h", "", "/a", "")
UriB == MkUri("https", "h", "", "/b", "")
UriP == MkUri("https", "h", "443", "/a", "")
UriQ == MkUri("https", "h", "443", "/b", "")
UriS == MkUri("http", "h", "443", "/b", "")
UriO == MkUri("https", "o", "", "/a", "")
UriN == MkUri("", "", "", "/a", "")
UriF == MkUri("https", "h", "443", "/a", "x")

\* links the extractor reports
LinkCss == MkUri("https", "h", "", "/s.css", "top")
LinkSelf == MkUri("https", "h", "443", "/a", "")
LinkOther == MkUri("https", "o", "", "/x.js", "")
LinkHttp == MkUri("http", "h", "443", "/y", "")
LinkPort == MkUri("https", "h", "8443", "/z", "")
LinkRel == MkUri("", "", "", "/rel", "")

LinkCatalog == {LinkCss, LinkSelf, LinkOther, LinkHttp, LinkPort, LinkRel}

\* reply header blocks a peer can send: with a header given twice, with
\* values in upper case, with headers before and after content-encoding
AllReplyBlocks ==
  { <<Nv(":status", "200")>>,
    <<Nv(":status", "200"), Nv(":status", "404")>>,
    <<Nv(":status", "200"), Nv("content-encoding", "gzip")>>,
    <<Nv("content-encoding", "GZIP"), Nv(":status", "200")>>,
    <<Nv(":status", "200"), Nv("Content-Encoding", "deflate"),
      Nv("content-type", "text/html")>>,
    <<Nv(":status", "200"), Nv("content-encoding", "gzip"),
      Nv("content-encoding", "identity")>> }

\* reply header blocks
ReplyBlocks ==
  IF env.replies = "all" THEN AllReplyBlocks
  ELSE { <<Nv(":status", "200")>> }
       \cup (IF env.gzip
             THEN { <<Nv(":status", "200"), Nv("content-encoding", "gzip")>> }
             ELSE {})

Piece(ok, links) == [ok |-> ok, links |-> links]

\* data chunks a server can send on a stream whose request is r, with
\* at most budget links in them
Chunks(B, r, budget) ==
  LET parser == r # 0 /\ B.c.reqvec[r].html_parser
      infl   == r # 0 /\ B.c.reqvec[r].inflater
      L      == IF parser /\ budget >= 1 THEN LinkCatalog ELSE {}
      L2     == IF parser /\ budget >= 2 THEN LinkCatalog ELSE {}
  IN {<<Piece(TRUE, <<>>)>>}
     \cup {<<Piece(TRUE, <<l>>)>> : l \in L}
     \cup {<<Piece(TRUE, <<l>>), Piece(TRUE, <<m>>)>> : l \in L2, m \in L2}
     \cup (IF infl
           THEN {<<Piece(FALSE, <<>>)>>}
                \cup {<<Piece(FALSE, <<>>), Piece(TRUE, <<l>>)>> : l \in L}
                \cup {<<Piece(TRUE, <<l>>), Piece(FALSE, <<>>)>> : l \in L}
           ELSE {})

\* what the final tick of the extractor can report when a stream closes
Flushes(B, r, budget) ==
  {<<>>} \cup
  (IF r # 0 /\ B.c.reqvec[r].html_parser /\ budget >= 1
   THEN {<<Piece(TRUE, <<l>>)>> : l \in LinkCatalog}
   ELSE {})

Ev(t, sid, nva, pieces) == [t |-> t, sid |-> sid, nva |-> nva, pieces |-> pieces]

\* frames the peer can have sent when readcb runs
RecvEvents(B) ==
  LET n == B.ng
      budget == env.links - B.g.links
  IN {Ev("NONE", 0, <<>>, <<>>)}
     \cup (IF env.faults THEN {Ev("ERROR", 0, <<>>, <<>>)} ELSE {})
     \cup {Ev("HEADERS", s, nva, <<>>) :
             s \in {x \in DOMAIN n.st : n.st[x] = "open"}, nva \in ReplyBlocks}
     \cup UNION {{Ev("DATA", s, <<>>, ch) : ch \in Chunks(B, n.udata[s], budget)} :
                   s \in {x \in DOMAIN n.st : n.st[x] = "replied"}}
     \cup UNION {{Ev("CLOSE", s, <<>>, fl) : fl \in Flushes(B, n.udata[s], budget)} :
                   s \in ActiveStreams(n)}
     \cup (IF env.goaway /\ "RECV" \notin n.goaway_flags
           THEN {Ev("GOAWAY", 0, <<>>, <<>>)} ELSE {})
     \cup (IF env.push /\ 2 \notin DOMAIN n.st /\ ActiveStreams(n) # {}
           THEN {Ev("PUSH_PROMISE", 2, <<>>, <<>>)} ELSE {})

\* the request of the reply HEADERS frame ev, if its block has a
\* content-encoding header with gzip or deflate
GzipSeen(ev) ==
  IF /\ ev.t = "HEADERS"
     /\ ng.udata[ev.sid] # 0
     /\ \E k \in DOMAIN ev.nva :
          /\ ToLower(ev.nva[k].name) = "content-encoding"
          /\ ToLower(ev.nva[k].value) \in {"gzip", "deflate"}
  THEN {ng.udata[ev.sid]} ELSE {}

\* the stream of the frame ev, if nghttp2_gzip_inflate fails on its data
DecodeFailure(ev) ==
  IF /\ ev.t = "DATA"
     /\ ev.sid \in DOMAIN client.streams
     /\ client.reqvec[client.streams[ev.sid]].inflater
     /\ \E k \in DOMAIN ev.pieces : ~ev.pieces[k].ok
  THEN {ev.sid} ELSE {}

FailAts == IF env.faults THEN {0, 1} ELSE {0}

(* ------------------------------ actions ------------------------------- *)
\* the client as a callback finds it; sendlog and pump (how the pump of
\* the callback ended) are a callback's own history
Cur ==
  [c |-> client, ng |-> ng, out |-> outlen,
   g |-> [gh EXCEPT !.sendlog = <<>>, !.pump = "none"]]

\* the state a callback leaves; where the process has ended in the
\* callback, the state it had entered with
Commit(B) ==
  IF B.g.aborted
  THEN /\ UNCHANGED <<client, ng, outlen>>
       /\ gh' = [gh EXCEPT !.aborted = TRUE, !.blocks = B.g.blocks]
  ELSE /\ client' = B.c
       /\ ng' = B.ng
       /\ outlen' = B.out
       /\ gh' = B.g

\* Commit where the engine's queue stays within MaxPending
CommitPending(B) == Len(B.ng.ob) <= MaxPending /\ Commit(B)

RunVars == <<cfg, uris, i, prev_host, prev_port, requests, failures,
             callsite, result, sessions, env>>

\* run(): one iteration of the loop over uris, up to the call of
\* communicate() if the iteration makes one, and the code after the loop
RunScan ==
  /\ pc = "scan"
  /\ UNCHANGED <<cfg, uris, failures, result, client, ng, outlen, gh,
                 sessions, env>>
  /\ IF i > Len(uris)
     THEN /\ IF requests # <<>>
             THEN pc' = "communicate" /\ callsite' = "final"
             ELSE pc' = "done" /\ UNCHANGED callsite
          /\ UNCHANGED <<i, prev_host, prev_port, requests>>
     ELSE LET uri  == strip_fragment(uris[i])
              u    == ParseUrl(uri)
              port == IF has_uri_field(u, "port") THEN u.port
                      ELSE get_default_port(uri, u)
          IN IF u.rv = 0 /\ has_uri_field(u, "schema")
             THEN IF ~fieldeq_str(uri, u, "host", prev_host)
                     \/ u.port # prev_port
                  THEN IF requests # <<>>
                       THEN /\ pc' = "communicate"
                            /\ callsite' = "loop"
                            /\ UNCHANGED <<i, prev_host, prev_port, requests>>
                       ELSE /\ prev_host' = get_uri_field(uri, u, "host")
                            /\ prev_port' = port
                            /\ requests' = Append(requests, uri)
                            /\ i' = i + 1
                            /\ UNCHANGED <<pc, callsite>>
                  ELSE /\ requests' = Append(requests, uri)
                       /\ i' = i + 1
                       /\ UNCHANGED <<pc, callsite, prev_host, prev_port>>
             ELSE /\ i' = i + 1
                  /\ UNCHANGED <<pc, callsite, prev_host, prev_port, requests>>

\* communicate(): the admission loop over requests, config.multiply
\* times each
RECURSIVE admit_requests(_, _, _)
admit_requests(B, reqs, k) ==
  IF reqs = <<>> THEN B
  ELSE IF k >= cfg.multiply THEN admit_requests(B, Tail(reqs), 0)
  ELSE admit_requests(
         add_request(B, Head(reqs), cfg.data, cfg.st_size, 0, 0), reqs, k + 1)

\* decimal form of a port ("ss << reqvec[0]->u.port")
PortString(n) ==
  CASE n = 80 -> "80"
    [] n = 443 -> "443"
    [] n = 8443 -> "8443"
    [] OTHER -> "0"

\* Request::is_ipv6_literal_addr: the host field holds a ':'
is_ipv6_literal_addr(req) ==
  has_uri_field(req.u, "host") /\ get_uri_field(req.uri, req.u, "host") = "::1"

\* what update_hostport computes from the first request
hostport_of(req) ==
  (IF is_ipv6_literal_addr(req)
   THEN <<"[", get_uri_field(req.uri, req.u, "host"), "]">>
   ELSE <<get_uri_field(req.uri, req.u, "host")>>)
  \o (IF has_uri_field(req.u, "port")
         /\ req.u.port # get_default_port(req.uri, req.u)
      THEN <<":", PortString(req.u.port)>> ELSE <<>>)

\* HttpClient::update_hostport
update_hostport(B) ==
  IF B.c.reqvec = <<>> THEN B
  ELSE [B EXCEPT !.c.hostport = hostport_of(B.c.reqvec[1])]

\* initiate_connection: "if(config.timeout != -1) { timeval tv =
\* { config.timeout, 0 }; bufferevent_set_timeouts(bev, &tv, &tv); }":
\* the seconds of the read and of the write timer (-1: no timer)
set_timeouts(timeout) ==
  IF timeout # 0 - 1
  THEN [read |-> timeout, write |-> timeout]
  ELSE [read |-> 0 - 1, write |-> 0 - 1]

\* HttpClient::HttpClient
NewClient == [NoClient EXCEPT !.dnsbase = TRUE]

\* communicate() from its entry to event_base_loop(): how is
\*   "ctx"     SSL_CTX_new or loading the key or certificate fails
\*   "connect" initiate_connection returns -1
\*   "ok"      the event loop is entered
CommBegin ==
  /\ pc = "communicate"
  /\ \E how \in {"ctx", "connect", "ok"} :
       /\ how = "ctx" => ~cfg.no_tls
       /\ LET B0 == [c |-> NewClient, ng |-> NgNull, out |-> 0,
                     g |-> [NoHistory EXCEPT !.acq =
                              <<"evbase">>
                              \o (IF cfg.no_tls THEN <<>> ELSE <<"ssl_ctx">>)
                              \o <<"dnsbase">>]]
              B1 == update_hostport(admit_requests(B0, requests, 0))
              B2 == [B1 EXCEPT !.c.ssl = ~cfg.no_tls, !.c.bev = TRUE,
                               !.g.tv = set_timeouts(cfg.timeout),
                               !.g.acq = @ \o (IF cfg.no_tls THEN <<>>
                                               ELSE <<"ssl">>) \o <<"bev">>]
          IN CASE how = "ctx" ->
                    /\ result' = 0 - 1
                    /\ Commit([B0 EXCEPT !.c = NoClient, !.g.failed = TRUE,
                                         !.g.acq = <<"evbase">>])
                    /\ pc' = "fin"
               [] how = "connect" ->
                    /\ result' = 0
                    /\ Commit(disconnect([B2 EXCEPT !.g.failed = TRUE]))
                    /\ pc' = "fin"
               [] OTHER ->
                    /\ result' = 0
                    /\ Commit(B2)
                    /\ pc' = "loop"
  /\ UNCHANGED <<cfg, uris, i, prev_host, prev_port, requests, failures,
                 callsite, sessions, env>>

InLoop == pc = "loop" /\ client.bev /\ ~gh.aborted

\* eventcb with BEV_EVENT_CONNECTED; npn is what next-protocol
\* negotiation selected
EventConnected ==
  /\ InLoop
  /\ client.state = "IDLE"
  /\ \E failAt \in FailAts, npn \in {"h2", "other"} :
       /\ client.ssl \/ npn = "h2"
       /\ LET B0 == [Cur EXCEPT !.g.connected = TRUE,
                                !.g.npn = IF client.ssl THEN npn ELSE "none"]
          IN Commit(eventcb(B0, "CONNECTED", failAt))
  /\ UNCHANGED <<pc, RunVars>>

\* eventcb with BEV_EVENT_EOF, BEV_EVENT_ERROR or BEV_EVENT_TIMEOUT
EventClosed ==
  /\ InLoop
  /\ \E what \in {"EOF", "ERROR", "TIMEOUT"} :
       /\ what = "EOF" => client.state = "CONNECTED"
       /\ what = "TIMEOUT" => cfg.timeout # 0 - 1
       /\ Commit(eventcb(
            [Cur EXCEPT !.g.failed =
               @ \/ what = "TIMEOUT" \/ (what = "ERROR" /\ client.state = "IDLE")],
            what, 0))
  /\ UNCHANGED <<pc, RunVars>>

\* readcb; unless the transport is slow, it has written the output of
\* one callback before it delivers further input
ReadCb ==
  /\ InLoop
  /\ client.session
  /\ env.slow \/ outlen = 0
  /\ \E ev \in RecvEvents(Cur), failAt \in FailAts :
       CommitPending(
         readcb([Cur EXCEPT !.g.links = @ + Len(AllLinks(ev.pieces)),
                            !.g.decfail = @ \cup DecodeFailure(ev),
                            !.g.sawgzip = @ \cup GzipSeen(ev)],
                ev, failAt))
  /\ UNCHANGED <<pc, RunVars>>

\* writecb, run when the transport has written output; left is what
\* remains in the output buffer
WriteCb ==
  /\ InLoop
  /\ client.session
  /\ outlen > 0
  /\ \E left \in {0, outlen}, failAt \in FailAts :
       Commit(writecb([Cur EXCEPT !.out = left], failAt))
  /\ UNCHANGED <<pc, RunVars>>

\* the transport holds output it can write
DrainReady == InLoop /\ client.session /\ outlen > 0

\* writecb run after the transport has written all of its output
WriteCbDrained ==
  /\ DrainReady
  /\ \E failAt \in FailAts :
       Commit(writecb([Cur EXCEPT !.out = 0], failAt))
  /\ UNCHANGED <<pc, RunVars>>

\* event_base_loop returns when no event is left; communicate() runs to
\* the label fin (the HttpClient destructor calls disconnect)
LoopExit ==
  /\ pc = "loop"
  /\ ~client.bev
  /\ ~gh.aborted
  /\ pc' = "fin"
  /\ Commit(disconnect(Cur))
  /\ UNCHANGED RunVars

\* communicate(), label fin: SSL_CTX_free and event_base_free
FinReleased(acq) ==
  (IF \E k \in DOMAIN acq : acq[k] = "ssl_ctx" THEN <<"ssl_ctx">> ELSE <<>>)
  \o <<"evbase">>

\* communicate() returns to run(), which counts the failure and, in the
\* loop, starts the next group of requests with uris[i]
CommReturn ==
  /\ pc = "fin"
  /\ failures' = IF result # 0 THEN failures + 1 ELSE failures
  /\ sessions' = Append(sessions,
       [host |-> prev_host, port |-> prev_port, reqs |-> requests,
        nreq |-> Len(client.reqvec), nsub |-> Len(gh.submitted),
        failed |-> gh.failed, npn |-> gh.npn, result |-> result,
        acq |-> gh.acq, rel |-> gh.rel \o FinReleased(gh.acq)])
  /\ Commit([c |-> NoClient, ng |-> NgNull, out |-> 0, g |-> NoHistory])
  /\ IF callsite = "loop"
     THEN LET uri  == strip_fragment(uris[i])
              u    == ParseUrl(uri)
              port == IF has_uri_field(u, "port") THEN u.port
                      ELSE get_default_port(uri, u)
          IN /\ prev_host' = get_uri_field(uri, u, "host")
             /\ prev_port' = port
             /\ requests' = <<uri>>
             /\ i' = i + 1
             /\ pc' = "scan"
     ELSE /\ pc' = "done"
          /\ UNCHANGED <<i, prev_host, prev_port, requests>>
  /\ UNCHANGED <<cfg, uris, callsite, result, env>>

Next ==
  \/ RunScan
  \/ CommBegin
  \/ EventConnected
  \/ EventClosed
  \/ ReadCb
  \/ WriteCb
  \/ LoopExit
  \/ CommReturn

(* --------------------------- specifications --------------------------- *)
RECURSIVE SeqsUpTo(_, _)
SeqsUpTo(S, n) ==
  IF n = 0 THEN {<<>>}
  ELSE LET T == SeqsUpTo(S, n - 1)
       IN T \cup {Append(t, x) : t \in T, x \in S}

InitRest ==
  /\ i = 1
  /\ prev_host = ""
  /\ prev_port = 0
  /\ requests = <<>>
  /\ failures = 0
  /\ pc = "scan"
  /\ callsite = "final"
  /\ result = 0
  /\ client = NoClient
  /\ ng = NgNull
  /\ outlen = 0
  /\ gh = NoHistory
  /\ sessions = <<>>

\* main, case 't': "config.timeout = atoi(optarg) * 1000"
timeout_opt(N) == N * 1000

\* data: -d is given (data_fd != -1); st_size: data_stat.st_size as run()
\* passes it on
\* t: the argument N of -t (-1: no -t); timeout: config.timeout
Cfg(multiply, get_assets, no_tls, t) ==
  [multiply |-> multiply, get_assets |-> get_assets, no_tls |-> no_tls,
   t |-> t, timeout |-> IF t = 0 - 1 THEN 0 - 1 ELSE timeout_opt(t),
   data |-> FALSE, st_size |-> 0, headers |-> <<>>,
   window_bits |-> 0 - 1]

\* main, "case 'w'": n is the argument as strtoul reads it; the option
\* is taken if n < 31, and main exits otherwise
w_accepted(n) == n < 31

WindowArgs == {n \in {0, 1, 30, 31} : w_accepted(n)}

\* replies: which reply header blocks the peer sends ("plain", "all")
\* linklog: the links the extractor reports are kept in linkseq
\* bodylog: what is done with body bytes is kept in raw, inflated, late
\* outlog: what the output buffer holds when released is kept in dropped
\* readlen: most bytes the engine asks of the data source in one call;
\* preaderr: the file offset at which pread fails (-1: none)
Env(gzip, push, goaway, faults, slow, links) ==
  [gzip |-> gzip, push |-> push, goaway |-> goaway, faults |-> faults,
   slow |-> slow, links |-> links, readlen |-> 1, preaderr |-> 0 - 1,
   heap |-> "slack", linklog |-> FALSE, replies |-> "plain",
   bodylog |-> FALSE, outlog |-> FALSE]

Sc(u, c, e) == [uris |-> u, cfg |-> c, env |-> e]

\* command lines that make one session
SessionInputs == {<<UriP>>, <<UriP, UriQ>>, <<UriF, UriP>>, <<UriA>>}

\* links the responses of a session with n command-line requests hold
LinkBudget(n) ==
  IF MaxStreams - n < MaxLinks THEN MaxStreams - n ELSE MaxLinks

\* sessions in which the peer's behaviour is explored:
\*  - responses with links, for every multiplicity
\*  - a peer that uses every frame type, with I/O faults
\*  - a transport that is slow to write
SessionScenarios ==
  {Sc(um[1], Cfg(um[2], TRUE, FALSE, 0 - 1),
      Env(FALSE, FALSE, FALSE, FALSE, FALSE,
          LinkBudget(Len(um[1]) * um[2]))) :
     um \in {x \in SessionInputs \X (0..MaxMultiply) :
              Len(x[1]) * x[2] <= MaxReqs}}
  \cup
  {Sc(<<UriP, UriQ>>, Cfg(1, a, t, 2),
      Env(TRUE, TRUE, TRUE, TRUE, FALSE, MaxLinks - 1)) :
     a \in BOOLEAN, t \in BOOLEAN}
  \cup
  {Sc(<<UriP, UriQ>>, Cfg(1, FALSE, FALSE, 2),
      Env(g, FALSE, FALSE, TRUE, TRUE, 0)) : g \in BOOLEAN}

Init ==
  /\ \E sc \in SessionScenarios :
       uris = sc.uris /\ cfg = sc.cfg /\ env = sc.env
  /\ InitRest

\* every command line over RunCatalog, against a peer that answers each
\* request with HEADERS and the end of the stream
RunCatalog == {UriA, UriB, UriP, UriQ, UriS, UriO, UriN}

InitRun ==
  /\ uris \in SeqsUpTo(RunCatalog, MaxUris)
  /\ cfg = Cfg(1, FALSE, FALSE, 2)
  /\ env = Env(FALSE, FALSE, FALSE, FALSE, FALSE, 0)
  /\ InitRest

Spec == Init /\ [][Next]_vars

SpecRun == InitRun /\ [][Next]_vars

\* sessions that upload the file given with -d: every file size, every
\* size of read, an I/O error at any offset, a slow transport; and
\* sessions without -d, where data_stat is not initialised
UploadScenarios ==
  {Sc(u, [Cfg(1, FALSE, FALSE, 0 - 1) EXCEPT !.data = TRUE, !.st_size = n],
      [Env(FALSE, FALSE, FALSE, e >= 0, w, 0)
         EXCEPT !.readlen = l, !.preaderr = e, !.heap = hp]) :
     u \in {<<UriP>>, <<UriP, UriQ>>}, n \in 0..MaxFileLen,
     l \in 1..MaxRead, e \in (0 - 1)..MaxFileLen, w \in BOOLEAN,
     hp \in {"slack", "abort"}}
  \cup
  {Sc(<<UriP>>, [Cfg(1, FALSE, FALSE, 0 - 1) EXCEPT !.st_size = n],
      Env(FALSE, FALSE, FALSE, FALSE, FALSE, 0)) : n \in {0, MaxFileLen}}

InitUpload ==
  /\ \E sc \in UploadScenarios :
       uris = sc.uris /\ cfg = sc.cfg /\ env = sc.env
  /\ InitRest

SpecUpload == InitUpload /\ [][Next]_vars

\* the names of the -H options, in the order of std::map<std::string>
HeaderNames ==
  <<"Accept", "Host", "User-Agent", "accept", "content-length", "host", "x-a">>

\* the subsequences of q of at most n elements
RECURSIVE SubSeqsUpTo(_, _)
SubSeqsUpTo(q, n) ==
  IF q = <<>> \/ n = 0 THEN {<<>>}
  ELSE SubSeqsUpTo(Tail(q), n)
       \cup {<<Head(q)>> \o t : t \in SubSeqsUpTo(Tail(q), n - 1)}

\* config.headers after main: what -H name: value inserted, by name
HeaderMap(names) ==
  [k \in 1..Len(names) |-> [name |-> names[k], value |-> <<"user", names[k]>>]]

\* sessions with user headers: every set of at most MaxHeaders of them,
\* with and without -d, on either kind of heap
HeaderScenarios ==
  {Sc(<<UriP, UriQ>>,
      [Cfg(1, FALSE, FALSE, 0 - 1)
         EXCEPT !.headers = HeaderMap(names), !.data = d,
                !.st_size = IF d THEN 1 ELSE 0],
      [Env(FALSE, FALSE, FALSE, FALSE, FALSE, 0) EXCEPT !.heap = hp]) :
     names \in SubSeqsUpTo(HeaderNames, MaxHeaders), d \in BOOLEAN,
     hp \in {"slack", "abort"}}

InitHeaders ==
  /\ \E sc \in HeaderScenarios :
       uris = sc.uris /\ cfg = sc.cfg /\ env = sc.env
  /\ InitRest

SpecHeaders == InitHeaders /\ [][Next]_vars

\* sessions with asset discovery whose links are kept in the order the
\* extractor reports them
LinkScenarios ==
  {Sc(um[1], Cfg(um[2], TRUE, FALSE, 0 - 1),
      [Env(FALSE, FALSE, FALSE, FALSE, FALSE,
           LinkBudget(Len(um[1]) * um[2])) EXCEPT !.linklog = TRUE]) :
     um \in {x \in {<<UriP>>, <<UriP, UriQ>>, <<UriA>>} \X (1..MaxMultiply) :
              Len(x[1]) * x[2] <= MaxReqs}}

InitLinks ==
  /\ \E sc \in LinkScenarios :
       uris = sc.uris /\ cfg = sc.cfg /\ env = sc.env
  /\ InitRest

SpecLinks == InitLinks /\ [][Next]_vars

\* sessions against a peer that sends every reply header block of
\* AllReplyBlocks
ReplyScenarios ==
  {Sc(u, Cfg(1, a, FALSE, 0 - 1),
      [Env(TRUE, FALSE, FALSE, FALSE, FALSE, IF a THEN 1 ELSE 0)
         EXCEPT !.replies = "all", !.bodylog = TRUE]) :
     u \in {<<UriP>>, <<UriP, UriQ>>}, a \in BOOLEAN}

InitReply ==
  /\ \E sc \in ReplyScenarios :
       uris = sc.uris /\ cfg = sc.cfg /\ env = sc.env
  /\ InitRest

SpecReply == InitReply /\ [][Next]_vars

\* sessions with a peer that compresses bodies and pushes a stream, over
\* a transport that writes at once or is slow to write
BodyScenarios ==
  {Sc(<<UriP, UriQ>>, Cfg(1, FALSE, FALSE, 0 - 1),
      [Env(TRUE, TRUE, FALSE, FALSE, s, 0) EXCEPT !.bodylog = TRUE]) :
     s \in BOOLEAN}

InitBody ==
  /\ \E sc \in BodyScenarios :
       uris = sc.uris /\ cfg = sc.cfg /\ env = sc.env
  /\ InitRest

SpecBody == InitBody /\ [][Next]_vars

\* command lines with and without -w, against a peer that answers, over
\* a transport with I/O faults
SettingsScenarios ==
  {Sc(u, [Cfg(1, FALSE, FALSE, 0 - 1) EXCEPT !.window_bits = w],
      [Env(FALSE, FALSE, FALSE, TRUE, FALSE, 0) EXCEPT !.outlog = TRUE]) :
     u \in {<<UriP>>, <<UriP, UriQ>>}, w \in WindowArgs \cup {0 - 1}}

InitSettings ==
  /\ \E sc \in SettingsScenarios :
       uris = sc.uris /\ cfg = sc.cfg /\ env = sc.env
  /\ InitRest

SpecSettings == InitSettings /\ [][Next]_vars

\* Spec with a transport that, as long as it holds output, writes all of
\* it and signals writable: weak fairness of WriteCbDrained, written with
\* DrainReady for ENABLED <<WriteCbDrained>>_vars
SpecDrain ==
  /\ Init /\ [][Next]_vars
  /\ ([]<>(~DrainReady) \/ []<><<WriteCbDrained>>_vars)


(* ------------------------------ properties ---------------------------- *)
InSession == pc = "loop"

Levels(k) == {r \in 1..Len(client.reqvec) : client.reqvec[r].level = k}

EffectivePort(uri) ==
  LET u == ParseUrl(uri) IN
  IF "port" \in u.field_set THEN PortValue(uri[u.field_data["port"]].v)
  ELSE IF "schema" \in u.field_set /\ uri[u.field_data["schema"]].v = "http"
  THEN 80 ELSE 443

FieldOf(uri, f) ==
  IF \E j \in 1..Len(uri) : uri[j].k = f
  THEN uri[CHOOSE j \in 1..Len(uri) : uri[j].k = f].v
  ELSE ""

OriginKey(uri) == <<FieldOf(uri, "schema"), FieldOf(uri, "host"), EffectivePort(uri)>>

\* C1: within a session, the step in which complete first equals
\* |reqvec| submits exactly one GOAWAY, no later step of the session
\* submits another one, and none is submitted while requests are open.
C1_GoawayOnCompletion ==
  [][ (pc = "loop" /\ pc' = "loop") =>
        LET done  == all_requests_processed(client)
            doneN == all_requests_processed(client')
        IN /\ (~done /\ doneN) => gh'.goaway = gh.goaway + 1
           /\ done => (doneN /\ gh'.goaway = gh.goaway)
           /\ ~doneN => gh'.goaway = 0
           /\ gh'.goaway <= 1
           /\ (doneN /\ Len(client'.reqvec) > 0) => gh'.goaway = 1 ]_vars

C1_Witness ==
  /\ pc = "loop"
  /\ Levels(1) # {}
  /\ Len(client.reqvec) >= 3
  /\ all_requests_processed(client)
  /\ gh.goaway = 1

C3_MonotoneCompletion ==
  [][ /\ (pc = "loop" /\ pc' = "loop") => client'.complete >= client.complete
      /\ client'.complete <= Len(client'.reqvec) ]_vars

C3_Witness ==
  /\ pc = "loop"
  /\ Levels(1) # {}
  /\ client.complete >= 1
  /\ client.complete < Len(client.reqvec)

\* C4: no request is bound to two stream identifiers, a binding is never
\* changed or removed, and every binding is the one the framing engine
\* made when it sent the HEADERS frame that opened the stream.
C4_UniqueStreams ==
  [][ /\ \A s, t \in DOMAIN client'.streams :
           client'.streams[s] = client'.streams[t] => s = t
      /\ client'.session =>
           \A s \in DOMAIN client'.streams :
              /\ s \in DOMAIN ng'.st
              /\ ng'.udata[s] = client'.streams[s]
              /\ client'.streams[s] \in 1..Len(client'.reqvec)
      /\ (pc = "loop" /\ pc' = "loop") =>
           \A s \in DOMAIN client.streams :
              s \in DOMAIN client'.streams
              /\ client'.streams[s] = client.streams[s] ]_vars

C4_Witness ==
  /\ client.session
  /\ Cardinality(DOMAIN client.streams) >= 3
  /\ \E s \in DOMAIN client.streams : client.reqvec[client.streams[s]].level = 1

\* C5 (as claimed): run() returns the number of sessions whose connection
\* could not be set up, initiated or established, or that timed out.
C5_ExitCodeCountsFailedSessions ==
  pc = "done" =>
    failures = Cardinality({k \in 1..Len(sessions) : sessions[k].failed})

\* C6 (as claimed): when next-protocol negotiation does not select HTTP/2,
\* no framing session is opened, no request is submitted and communicate()
\* reports the failure.
C6_NpnFailureFailsSession ==
  gh.npn = "other" =>
    /\ ~client.session
    /\ gh.submitted = <<>>
    /\ pc = "fin" => result # 0

\* the grouping the claim describes: a new group starts where host or
\* effective port differ from the preceding URI
RECURSIVE ClaimedGroups(_, _)
ClaimedGroups(us, acc) ==
  IF us = <<>> THEN acc
  ELSE LET uri == strip_fragment(Head(us))
           u   == ParseUrl(uri)
       IN IF ~(u.rv = 0 /\ "schema" \in u.field_set)
          THEN ClaimedGroups(Tail(us), acc)
          ELSE IF acc # <<>>
                  /\ FieldOf(Last(Last(acc)), "host") = FieldOf(uri, "host")
                  /\ EffectivePort(Last(Last(acc))) = EffectivePort(uri)
          THEN ClaimedGroups(Tail(us),
                 [acc EXCEPT ![Len(acc)] = Append(@, uri)])
          ELSE ClaimedGroups(Tail(us), Append(acc, <<uri>>))

\* C7 (as claimed): the sessions run() makes are the groups of consecutive
\* URIs with equal host and effective port.
C7_GroupingByHostAndEffectivePort ==
  pc = "done" =>
    [k \in 1..Len(sessions) |-> sessions[k].reqs] = ClaimedGroups(uris, <<>>)

\* C8: with multiply = 1 add_request returns false exactly for a URI
\* admitted before and the registry holds each URI once; with any other
\* multiply every call appends, and communicate() makes multiply requests
\* of each URI it is given.
C8_Deduplication ==
  LET a == gh.admits
      accepted == SelectSeq(a, LAMBDA x : x.ret)
  IN /\ Len(accepted) = Len(client.reqvec)
     /\ \A k \in 1..Len(accepted) : client.reqvec[k].uri = accepted[k].uri
     /\ cfg.multiply = 1 =>
          /\ \A k \in 1..Len(a) :
               a[k].ret = ~(\E j \in 1..(k - 1) : a[j].uri = a[k].uri)
          /\ \A j, k \in 1..Len(client.reqvec) :
               client.reqvec[j].uri = client.reqvec[k].uri => j = k
     /\ cfg.multiply # 1 =>
          /\ \A k \in 1..Len(a) : a[k].ret
          /\ Len(client.reqvec) = Len(a)
          /\ pc = "loop" =>
               Cardinality(Levels(0)) = cfg.multiply * Len(requests)

C8_Witness ==
  /\ cfg.multiply = 1
  /\ Len(client.reqvec) >= 2
  /\ \E k \in 1..Len(gh.admits) :
       ~gh.admits[k].ret /\ k > Len(requests)

\* C9 (as claimed): the requests of one registry have one Origin Key, and
\* two URIs of the command line share a session iff their Origin Keys are
\* equal.
RECURSIVE Flatten(_)
Flatten(ss) == IF ss = <<>> THEN <<>> ELSE Head(ss) \o Flatten(Tail(ss))

RECURSIVE SessionIndex(_, _, _)
SessionIndex(ss, n, k) ==
  IF n <= Len(Head(ss)) THEN k
  ELSE SessionIndex(Tail(ss), n - Len(Head(ss)), k + 1)

C9_OneOriginPerSession ==
  /\ \A j, k \in 1..Len(client.reqvec) :
       OriginKey(client.reqvec[j].uri) = OriginKey(client.reqvec[k].uri)
  /\ pc = "done" =>
       LET groups == [k \in 1..Len(sessions) |-> sessions[k].reqs]
           all    == Flatten(groups)
       IN \A x, y \in 1..Len(all) :
            (SessionIndex(groups, x, 1) = SessionIndex(groups, y, 1))
              <=> (OriginKey(all[x]) = OriginKey(all[y]))

\* C10: a request of level >= 1 has the scheme, host and effective port of
\* the level-0 request whose response contained the link.
C10_SameOriginAssets ==
  \A r \in 1..Len(client.reqvec) :
    LET req == client.reqvec[r] IN
    req.level >= 1 =>
      /\ req.parent \in Levels(0)
      /\ req.level = 1
      /\ OriginKey(req.uri) = OriginKey(client.reqvec[req.parent].uri)

C10_Witness ==
  /\ Cardinality(Levels(1)) = 1
  /\ gh.links = 2
  /\ Len(gh.admits) = Len(client.reqvec)

\* C11 (as claimed): a call of sendcb made while the output buffer is
\* longer than the high-water mark returns would-block and leaves the
\* buffer as it is; every other call appends len bytes and returns len.
C11_SendAdapter ==
  \A k \in DOMAIN gh.sendlog :
    LET e == gh.sendlog[k] IN
    IF e.before > output_upper_thres
    THEN e.rv = NGHTTP2_ERR_WOULDBLOCK /\ e.after = e.before
    ELSE e.rv = e.len /\ e.after = e.before + e.len

\* C11 (amended): as claimed, except that a call whose evbuffer_add fails
\* returns the callback failure and leaves the buffer as it is.
C11_SendAdapterUnlessAddFails ==
  \A k \in DOMAIN gh.sendlog :
    LET e == gh.sendlog[k] IN
    IF e.before > output_upper_thres
    THEN e.rv = NGHTTP2_ERR_WOULDBLOCK /\ e.after = e.before
    ELSE IF e.add_fails
    THEN e.rv = NGHTTP2_ERR_CALLBACK_FAILURE /\ e.after = e.before
    ELSE e.rv = e.len /\ e.after = e.before + e.len

C11_Witness ==
  /\ \E k \in DOMAIN gh.sendlog :
       gh.sendlog[k].rv = NGHTTP2_ERR_WOULDBLOCK
  /\ \E k \in DOMAIN gh.sendlog :
       gh.sendlog[k].rv = FrameLen /\ gh.sendlog[k].before > 0
  /\ outlen > output_upper_thres

\* frames are pending in the framing engine and the output buffer is
\* above the high-water mark
Blocked ==
  /\ pc = "loop"
  /\ client.session
  /\ ng.ob # <<>>
  /\ outlen > output_upper_thres

C13_FatalPumpTearsDown ==
  gh.pump = "error" =>
    (~client.session /\ ~client.bev /\ client.state = "IDLE")

Reverse(q) == [k \in 1..Len(q) |-> q[Len(q) + 1 - k]]

\* C14 (as claimed): when communicate() has returned, the resources it
\* acquired have each been released once, in the reverse of the order in
\* which they were acquired.
C14_ReleaseInReverseOrder ==
  \A k \in DOMAIN sessions : sessions[k].rel = Reverse(sessions[k].acq)

\* C15: a read callback never decreases data_offset; data_offset is the
\* sum of the byte counts the read callbacks of the request have returned
\* (a failed read and the end of the input add nothing); and it never
\* exceeds the size of the file.
C15_UploadMonotone ==
  [][ /\ \A r \in DOMAIN client'.reqvec :
           /\ client'.reqvec[r].data_offset = ReadSum(gh', r)
           /\ client'.reqvec[r].data_prd =>
                client'.reqvec[r].data_offset <= client'.reqvec[r].data_length
           /\ ~client'.reqvec[r].data_prd => client'.reqvec[r].data_offset = 0
      /\ (pc = "loop" /\ pc' = "loop") =>
           \A r \in DOMAIN client.reqvec :
              client'.reqvec[r].data_offset >= client.reqvec[r].data_offset
    ]_vars

C15_Witness ==
  /\ pc = "loop"
  /\ Len(client.reqvec) = 2
  /\ client.reqvec[1].data_offset = MaxFileLen
  /\ client.reqvec[2].data_offset \in 1..(MaxFileLen - 1)
  /\ gh.reads >= 4
  /\ gh.wasblocked

\* C16: RST_STREAM is submitted for the streams whose data the decoder
\* failed on and for no other; the callback in which the decoder fails on
\* stream s leaves the state of every other stream and of its request as
\* it was; and a request is counted toward complete once, when its stream
\* has closed, also after such a reset.
C16_DecodeErrorResetsOneStream ==
  [][ (pc = "loop" /\ pc' = "loop" /\ client'.session) =>
        /\ gh'.rst = gh'.decfail
        /\ \A s \in gh'.decfail \ gh.decfail :
             \A t \in DOMAIN ng.st \ {s} :
                /\ ng'.st[t] = ng.st[t]
                /\ ng'.udata[t] = ng.udata[t]
                /\ t \in DOMAIN client.streams =>
                     /\ client'.streams[t] = client.streams[t]
                     /\ client'.reqvec[client.streams[t]]
                          = client.reqvec[client.streams[t]]
        /\ \A r \in DOMAIN client'.reqvec : Counted(gh', r) <= 1
        /\ \A s \in DOMAIN client'.streams :
             Counted(gh', client'.streams[s])
               = (IF ng'.st[s] = "closed" THEN 1 ELSE 0) ]_vars

C16_Witness ==
  /\ pc = "loop"
  /\ client.session
  /\ gh.decfail = {1}
  /\ ng.st[1] = "closed"
  /\ Counted(gh, client.streams[1]) = 1
  /\ 3 \in DOMAIN client.streams
  /\ ng.st[3] = "closed"
  /\ client.reqvec[client.streams[3]].status = "200"
  /\ client.complete = 2

\* C17 (as claimed): with -t N, config.timeout is N * 1000 and the read
\* and the write timer installed on the channel are of N seconds.
C17_TimeoutInSeconds ==
  (pc = "loop" /\ client.bev /\ cfg.t # 0 - 1) =>
    /\ cfg.timeout = cfg.t * 1000
    /\ gh.tv = [read |-> cfg.t, write |-> cfg.t]

\* the names whose default a user header replaces
Defaulted == {"accept", "user-agent", "host"}

\* the indexes of the headers of block whose name is n but for case
Named(block, n) == {k \in DOMAIN block : strieq(block[k].name[1], n)}

\* the user headers that replace no default, as submit_request appends
\* them
Appended(headers) ==
  LET rest == SelectSeq(headers, LAMBDA h : ToLower(h.name) \notin Defaulted)
  IN [k \in DOMAIN rest |-> Nv(cstr(rest[k].name), rest[k].value)]

\* C18 (as claimed): in every header block, each user header named
\* accept, user-agent or host but for case has exactly one header of its
\* name, with its value, and every other user header comes after the
\* defaults.
C18_UserHeaderReplacesDefault ==
  \A b \in DOMAIN gh.blocks :
    \A h \in DOMAIN cfg.headers :
      IF ToLower(cfg.headers[h].name) \in Defaulted
      THEN /\ Cardinality(Named(gh.blocks[b].block, cfg.headers[h].name)) = 1
           /\ \A k \in Named(gh.blocks[b].block, cfg.headers[h].name) :
                gh.blocks[b].block[k].value = cfg.headers[h].value
      ELSE \E k \in DOMAIN gh.blocks[b].block :
             /\ k > POS_USERAGENT + 1
             /\ gh.blocks[b].block[k]
                  = Nv(cstr(cfg.headers[h].name), cfg.headers[h].value)

\* the place in the block of the default that user header name n replaces
SlotOf(n) ==
  CASE ToLower(n) = "accept" -> POS_ACCEPT + 1
    [] ToLower(n) = "user-agent" -> POS_USERAGENT + 1
    [] ToLower(n) = "host" -> POS_HOST + 1

\* the last user header, in iteration order, named n but for case
LastNamed(headers, n) ==
  headers[CHOOSE k \in DOMAIN headers :
            /\ strieq(headers[k].name, n)
            /\ \A j \in DOMAIN headers :
                 strieq(headers[j].name, n) => j <= k]

\* C18 (amended): in every header block, a user header named accept,
\* user-agent or host but for case puts its value into the header at the
\* default's place (accept, user-agent, :host), whose name stays the
\* default's; of several such user headers the last in iteration order
\* gives the value; no header of the user's name is added; and the
\* other user headers come last in the block, in iteration order.
C18_UserHeaderFillsDefaultSlot ==
  \A b \in DOMAIN gh.blocks :
    /\ \A h \in DOMAIN cfg.headers :
         ToLower(cfg.headers[h].name) \in Defaulted =>
           /\ gh.blocks[b].block[SlotOf(cfg.headers[h].name)]
                = Nv(cstr(IF ToLower(cfg.headers[h].name) = "host"
                          THEN ":host" ELSE ToLower(cfg.headers[h].name)),
                     LastNamed(cfg.headers, cfg.headers[h].name).value)
           /\ Named(gh.blocks[b].block, cfg.headers[h].name)
                \subseteq {SlotOf(cfg.headers[h].name)}
           /\ Named(gh.blocks[b].block, ":host") = {POS_HOST + 1}
    /\ Len(gh.blocks[b].block)
         = POS_USERAGENT + 1 + (IF gh.blocks[b].data_prd THEN 1 ELSE 0)
           + Len(Appended(cfg.headers))
    /\ SubSeq(gh.blocks[b].block,
              Len(gh.blocks[b].block) - Len(Appended(cfg.headers)) + 1,
              Len(gh.blocks[b].block))
         = Appended(cfg.headers)

C18_Witness ==
  /\ pc = "loop"
  /\ Len(gh.blocks) = 2
  /\ cfg.headers = HeaderMap(<<"Host", "x-a">>)
  /\ gh.blocks[2].block[POS_HOST + 1] = Nv(cstr(":host"), <<"user", "Host">>)
  /\ gh.blocks[2].block[POS_USERAGENT + 2] = Nv(cstr("x-a"), <<"user", "x-a">>)

\* the names of the first four headers of a block
PseudoFirst(block) ==
  /\ Len(block) >= 4
  /\ <<block[1].name, block[2].name, block[3].name, block[4].name>>
       = <<cstr(":method"), cstr(":path"), cstr(":scheme"), cstr(":host")>>
  /\ \A k \in DOMAIN block : k > 4 => block[k].name[1] \notin
       {":method", ":path", ":scheme", ":host"}

\* C19 (as claimed): every header block starts with :method, :path,
\* :scheme, :host in this order, :method is POST iff the request has a
\* body source, and a content-length header is in the block iff it has.
C19_HeaderOrder ==
  \A b \in DOMAIN gh.blocks :
    /\ PseudoFirst(gh.blocks[b].block)
    /\ gh.blocks[b].block[1].value
         = (IF gh.blocks[b].data_prd THEN cstr("POST") ELSE cstr("GET"))
    /\ (Named(gh.blocks[b].block, "content-length") # {})
         <=> gh.blocks[b].data_prd

\* C19 (amended): every header block starts with :method, :path,
\* :scheme, :host in this order, :method is POST iff the request has a
\* body source, and the content-length header of submit_request, the
\* eighth header with the decimal body length, is in the block iff it
\* has; the block has one more content-length header if the user gave
\* one.
C19_HeaderOrderOwnLength ==
  \A b \in DOMAIN gh.blocks :
    /\ PseudoFirst(gh.blocks[b].block)
    /\ gh.blocks[b].block[1].value
         = (IF gh.blocks[b].data_prd THEN cstr("POST") ELSE cstr("GET"))
    /\ (/\ Len(gh.blocks[b].block) >= POS_USERAGENT + 2
        /\ gh.blocks[b].block[POS_USERAGENT + 2]
             = Nv(cstr("content-length"), Decimal(gh.blocks[b].data_length)))
         <=> gh.blocks[b].data_prd
    /\ Cardinality(Named(gh.blocks[b].block, "content-length"))
         = (IF gh.blocks[b].data_prd THEN 1 ELSE 0)
           + Cardinality(Named(Appended(cfg.headers), "content-length"))

C19_Witness ==
  /\ pc = "loop"
  /\ Len(gh.blocks) = 2
  /\ cfg.headers = HeaderMap(<<"content-length", "host">>)
  /\ gh.blocks[1].data_prd
  /\ gh.blocks[1].block[1] = Nv(cstr(":method"), cstr("POST"))
  /\ gh.blocks[1].block[8] = Nv(cstr("content-length"), cstr("1"))
  /\ gh.blocks[1].block[9]
       = Nv(cstr("content-length"), <<"user", "content-length">>)

\* uri holds the character '#'
HasHash(uri) == \E j \in DOMAIN uri : uri[j].k = "hash"

\* C20: no Request in the registry of the running session, and no request
\* handed to a session that has ended, has a URI that holds '#'.
C20_NoFragmentStored ==
  /\ \A r \in DOMAIN client.reqvec : ~HasHash(client.reqvec[r].uri)
  /\ \A k \in DOMAIN sessions :
       \A j \in DOMAIN sessions[k].reqs : ~HasHash(sessions[k].reqs[j])

C20_Witness ==
  /\ pc = "loop"
  /\ uris # <<>>
  /\ client.reqvec # <<>>
  /\ HasHash(uris[1])
  /\ HasHash(LinkCss)
  /\ client.reqvec[1].uri = strip_fragment(uris[1])
  /\ \E r \in DOMAIN client.reqvec :
       /\ client.reqvec[r].level = 1
       /\ client.reqvec[r].uri = strip_fragment(LinkCss)

\* q is p with some elements left out
RECURSIVE IsSubSeq(_, _)
IsSubSeq(q, p) ==
  IF q = <<>> THEN TRUE
  ELSE IF p = <<>> THEN FALSE
  ELSE IF Head(q) = Head(p) THEN IsSubSeq(Tail(q), Tail(p))
  ELSE IsSubSeq(q, Tail(p))

\* the URIs of the asset Requests, in the order of the registry
AssetUris ==
  LET a == SelectSeq(client.reqvec, LAMBDA q : q.level >= 1)
  IN [k \in DOMAIN a |-> a[k].uri]

\* the links the extractor reported, without their fragments
StrippedLinks == [k \in DOMAIN gh.linkseq |-> strip_fragment(gh.linkseq[k])]

\* C21: the k-th request submitted is the k-th Request of the registry;
\* none is submitted before the connection is made; from then on every
\* Request of the registry has been submitted, so each asset is submitted
\* in the callback that admits it; and the assets are in the registry in
\* the order the extractor reported their links.
C21_SubmittedInAdmissionOrder ==
  /\ \A k \in DOMAIN gh.submitted : gh.submitted[k] = k
  /\ ~gh.connected => gh.submitted = <<>>
  /\ (pc = "loop" /\ client.session) =>
       Len(gh.submitted) = Len(client.reqvec)
  /\ IsSubSeq(AssetUris, StrippedLinks)

C21_Witness ==
  /\ pc = "loop"
  /\ client.session
  /\ Len(gh.linkseq) = 2
  /\ gh.linkseq[1] # gh.linkseq[2]
  /\ Len(client.reqvec) = 3
  /\ gh.submitted = <<1, 2, 3>>
  /\ AssetUris = StrippedLinks

\* C22 (as claimed): where the pump has found the session quiescent after
\* every request completed and GOAWAY was submitted, the output buffer
\* held nothing when disconnect() freed the channel.
C22_GoawayDrainedBeforeClose ==
  (/\ gh.dropped # "none"
   /\ gh.quiescent
   /\ gh.goaway > 0
   /\ client.reqvec # <<>>
   /\ all_requests_processed(client)) => gh.dropped = "empty"

C24_StatusSetOnce ==
  \A r \in DOMAIN gh.statuslog :
    \A k \in DOMAIN gh.statuslog[r] : gh.statuslog[r][k] = gh.statuslog[r][1]

\* C25 (as claimed): a Request whose reply header block had a
\* content-encoding header with gzip or deflate has a decoder once the
\* block is processed; init_inflater runs at most once for a Request; and
\* no body byte of such a Request, or of one with a decoder, is written
\* as received.
C25_DecoderAttached ==
  /\ \A r \in gh.sawgzip :
       r \in DOMAIN client.reqvec =>
         /\ client.reqvec[r].inflater
         /\ r \notin gh.raw
  /\ \A r \in DOMAIN client.reqvec :
       /\ InflaterInits(gh, r) <= 1
       /\ client.reqvec[r].inflater => r \notin gh.raw

\* the sessions made so far
Sessions == Len(SelectSeq(gh.acq, LAMBDA a : a = "session"))

Untouched(B0, B2) ==
  /\ B2.c = B0.c
  /\ B2.g.raw = B0.g.raw /\ B2.g.inflated = B0.g.inflated
  /\ B2.g.goaway = B0.g.goaway
  /\ B2.g.links = B0.g.links /\ B2.g.admits = B0.g.admits
  /\ B2.ng.ob = B0.ng.ob

\* C27: in every reachable state, a stream-closed or data-chunk event
\* the peer can cause for a stream that is not in the stream mapping
\* leaves complete, the request sequence, the stream mapping and every
\* Request as they were, writes nothing and submits neither GOAWAY nor
\* anything else.
C27_UnknownStreamIgnored ==
  \A ev \in RecvEvents(Cur) :
    (ev.t \in {"DATA", "CLOSE"} /\ ev.sid \notin DOMAIN client.streams) =>
      Untouched(Cur, nghttp2_session_recv(Cur, ev).B)

\* the pushed stream has had data and was closed, with requests pending
C27_Witness ==
  /\ env.bodylog
  /\ client.session
  /\ 2 \in DOMAIN ng.st /\ ng.st[2] = "closed"
  /\ 2 \notin DOMAIN client.streams
  /\ client.complete < Len(client.reqvec)
  /\ gh.goaway = 0
  /\ gh.raw = {}

\* C30 (as claimed): no data of a stream is given to the decoder once
\* RST_STREAM has been submitted for the stream after a decoder error,
\* neither the rest of the failing chunk nor a later chunk.
C30_NoDataAfterDecodeError == gh.late = {}

\* the Requests of the session with the given level
AtLevel(l) == {r \in DOMAIN client.reqvec : client.reqvec[r].level = l}

\* C28: a Request has a link extractor only if its level is 0 and asset
\* discovery is enabled; every Request has level 0 or 1, a Request of
\* level 1 having a parent of level 0; and the Requests of level 1 are at
\* most as many as the links found in the responses, so that the
\* Requests are at most the initial admissions plus those links.
C28_DiscoveryDepthOne ==
  /\ \A r \in DOMAIN client.reqvec :
       /\ client.reqvec[r].html_parser =>
            cfg.get_assets /\ client.reqvec[r].level = 0
       /\ client.reqvec[r].level \in {0, 1}
       /\ client.reqvec[r].level = 1 =>
            /\ client.reqvec[r].parent \in DOMAIN client.reqvec
            /\ client.reqvec[client.reqvec[r].parent].level = 0
  /\ Cardinality(AtLevel(1)) <= gh.links
  /\ Len(client.reqvec) <= Cardinality(AtLevel(0)) + gh.links

\* the reply to a discovered asset has arrived, with budget left for a
\* further link, and no extractor was attached
C28_Witness ==
  /\ cfg.get_assets
  /\ gh.links < env.links
  /\ \E s \in DOMAIN client.streams \cap DOMAIN ng.st :
       /\ client.reqvec[client.streams[s]].level = 1
       /\ ng.st[s] = "replied"
       /\ ~client.reqvec[client.streams[s]].html_parser

\* C29 (as claimed): every array submit_request has built was written
\* within its total_entry_count + 1 slots: nothing, the terminating null
\* included, was written at an index past the end.
C29_SlotsWithinArray ==
  \A b \in DOMAIN gh.blocks :
    /\ gh.blocks[b].nv.oob = <<>>
    /\ gh.blocks[b].nv.size =
         total_entry_count(cfg.headers, client.reqvec[gh.blocks[b].req]) + 1

====
